---- MODULE Spec2Model ----
(***************************************************************************)
(* A model of source/hello_world_test/main.c: the memory-mapped UART-lite  *)
(* driver (reset_uartlite, putc_uartlite, getc_uartlite, puts_uartlite)    *)
(* and main's print loop, run against a model of the UART-lite register    *)
(* block.  One CPU step is one statement-level bus access (or one call /   *)
(* loop step); the device changes its registers between CPU steps.         *)
(***************************************************************************)
EXTENDS Integers, Sequences, FiniteSets, TLC

VARIABLES
    cpu,    \* the processor: position, call stack, arguments and locals
    dev,    \* the UART-lite register block (and its transmit FIFO)
    obs,    \* what an observer of the bus has seen so far
    twin    \* a second run of the same program, for two-run comparisons

vars == <<cpu, dev, obs, twin>>

----------------------------------------------------------------------------
(* Bounds of the model.                                                    *)

\* The observer keeps the first MaxLog values of each trace.
MaxLog == 17
\* The observer counts status polls up to MaxPolls.
MaxPolls == 2
\* Strings handed to puts_uartlite hold at most MaxStrLen bytes before the
\* terminating zero.
MaxStrLen == 2
\* The number of auxiliary-status patterns the device produces, minus one.
MaxAux == 1
\* Depth of the device's transmit FIFO.
FifoDepth == 2

----------------------------------------------------------------------------
(* Machine words and bits.  A uint32_t register value is the pair of its   *)
(* upper 24 bits and its low byte, [hi, lo]: the code's bit-fields and its *)
(* char conversions all live in the low byte, and the pair keeps every     *)
(* number within the range the model checker computes with.                *)

Byte == 2 ^ 8               \* char and the registers' low byte: 8 bits
Hi24 == 2 ^ 24 - 1          \* the upper 24 bits of a uint32_t, all set

W(hi, lo) == [hi |-> hi, lo |-> lo]

Pow2(k) == 2 ^ k
Bit(v, k) == (v \div Pow2(k)) % 2
\* Bit k (k < 8) of a register word, set and cleared.
WBit(w, k) == Bit(w.lo, k)
SetBit(w, k) == IF WBit(w, k) = 1 THEN w ELSE [w EXCEPT !.lo = @ + Pow2(k)]
ClrBit(w, k) == IF WBit(w, k) = 1 THEN [w EXCEPT !.lo = @ - Pow2(k)] ELSE w

\* Bit positions of the status register's bit-fields (uartlite_s, LSB first).
RX_VALID == 0
RX_FULL == 1
TX_EMPTY == 2
TX_FULL == 3
INTR_ENABLED == 4
OVERRUN == 5
FRAME == 6
PARITY == 7
\* Bit positions of the control register's bit-fields.
TX_RESET == 0
RX_RESET == 1
INTR_ENABLE == 4

\* The bit-field reads the code makes: uart->tx_full, uart->rx_valid.
tx_full(status) == WBit(status, TX_FULL)
rx_valid(status) == WBit(status, RX_VALID)

\* char -> uint32_t (uart->tx_fifo = c): value-preserving modulo 2^32, so a
\* negative char (a build whose char is signed) is sign-extended.
ToU32(c) == IF c < 0 THEN W(Hi24, c + Byte) ELSE W(0, c)
\* uint32_t -> char ((char)uart->rx_fifo): the low 8 bits, read as a char of
\* the build's signedness.
ToChar(w, signed) == IF signed /\ w.lo >= 128 THEN w.lo - Byte ELSE w.lo

\* static char const hello_world[] = "Hello, World!\r\n"; with its terminator.
hello_world ==
    <<72, 101, 108, 108, 111, 44, 32, 87, 111, 114, 108, 100, 33, 13, 10, 0>>

----------------------------------------------------------------------------
(* The register block, as the CPU's loads and stores see it.  A CPU step    *)
(* yields the CPU's next state and the one bus access it made.              *)

NoAcc == [kind |-> "none", reg |-> "none", val |-> W(0, 0)]
Rd(reg, val) == [kind |-> "rd", reg |-> reg, val |-> val]
Wr(reg, val) == [kind |-> "wr", reg |-> reg, val |-> val]

\* A load of uart->control: the last value written where the register reads
\* back (a mirror), zero where it is write-only.
ReadControl(d) == IF d.ctrl_rd = "mirror" THEN d.control ELSE W(0, 0)

\* A call pushes the place to come back to; a return pops it.  The routine
\* the run started in returns to "done".
Call(c, target, back) == [c EXCEPT !.pc = target, !.stack = <<back>> \o @]
Return(c) ==
    IF c.stack = <<>>
    THEN [c EXCEPT !.pc = "done"]
    ELSE [c EXCEPT !.pc = Head(c.stack), !.stack = Tail(c.stack)]

----------------------------------------------------------------------------
(* The driver, statement by statement.  c is the CPU, d the device.        *)

ResetPCs == {"reset_38_ld", "reset_38_st", "reset_39_ld", "reset_39_st",
             "reset_40_ld", "reset_40_st"}
PutcPCs == {"putc_44", "putc_45"}
GetcPCs == {"getc_49", "getc_50"}
PutsPCs == {"puts_54", "puts_54_inc"}
MainPCs == {"main_64", "main_66"}

\* A reset that stores each bit-field without loading the word first.
reset_uartlite_clobber(c, d) ==
    CASE c.pc \in {"reset_38_ld", "reset_39_ld", "reset_40_ld"} ->
            [cpu |-> [c EXCEPT !.tmp = W(0, 0),
                               !.pc = CASE c.pc = "reset_38_ld" -> "reset_38_st"
                                        [] c.pc = "reset_39_ld" -> "reset_39_st"
                                        [] c.pc = "reset_40_ld" -> "reset_40_st"],
             acc |-> NoAcc]
      [] c.pc = "reset_38_st" ->
            [cpu |-> [c EXCEPT !.pc = "reset_39_ld"],
             acc |-> Wr("control", SetBit(c.tmp, TX_RESET))]
      [] c.pc = "reset_39_st" ->
            [cpu |-> [c EXCEPT !.pc = "reset_40_ld"],
             acc |-> Wr("control", SetBit(c.tmp, RX_RESET))]
      [] c.pc = "reset_40_st" ->
            [cpu |-> Return(c),
             acc |-> Wr("control", ClrBit(c.tmp, INTR_ENABLE))]

\* A reset whose first two stores are exchanged:
\* uart->rx_reset = 1; uart->tx_reset = 1; uart->intr_enable = 0;
reset_uartlite_swapped(c, d) ==
    CASE c.pc \in {"reset_38_ld", "reset_39_ld", "reset_40_ld"} ->
            [cpu |-> [c EXCEPT !.tmp = ReadControl(d),
                               !.pc = CASE c.pc = "reset_38_ld" -> "reset_38_st"
                                        [] c.pc = "reset_39_ld" -> "reset_39_st"
                                        [] c.pc = "reset_40_ld" -> "reset_40_st"],
             acc |-> Rd("control", ReadControl(d))]
      [] c.pc = "reset_38_st" ->
            [cpu |-> [c EXCEPT !.pc = "reset_39_ld"],
             acc |-> Wr("control", SetBit(c.tmp, RX_RESET))]
      [] c.pc = "reset_39_st" ->
            [cpu |-> [c EXCEPT !.pc = "reset_40_ld"],
             acc |-> Wr("control", SetBit(c.tmp, TX_RESET))]
      [] c.pc = "reset_40_st" ->
            [cpu |-> Return(c),
             acc |-> Wr("control", ClrBit(c.tmp, INTR_ENABLE))]

\* void reset_uartlite(uart): three bit-field stores to the volatile control
\* word, each a load of the word, a change of one bit and a store.
reset_uartlite(c, d) ==
    CASE c.pc = "reset_38_ld" ->
            [cpu |-> [c EXCEPT !.tmp = ReadControl(d), !.pc = "reset_38_st"],
             acc |-> Rd("control", ReadControl(d))]
      [] c.pc = "reset_38_st" ->
            [cpu |-> [c EXCEPT !.pc = "reset_39_ld"],
             acc |-> Wr("control", SetBit(c.tmp, TX_RESET))]
      [] c.pc = "reset_39_ld" ->
            [cpu |-> [c EXCEPT !.tmp = ReadControl(d), !.pc = "reset_39_st"],
             acc |-> Rd("control", ReadControl(d))]
      [] c.pc = "reset_39_st" ->
            [cpu |-> [c EXCEPT !.pc = "reset_40_ld"],
             acc |-> Wr("control", SetBit(c.tmp, RX_RESET))]
      [] c.pc = "reset_40_ld" ->
            [cpu |-> [c EXCEPT !.tmp = ReadControl(d), !.pc = "reset_40_st"],
             acc |-> Rd("control", ReadControl(d))]
      [] c.pc = "reset_40_st" ->
            [cpu |-> Return(c),
             acc |-> Wr("control", ClrBit(c.tmp, INTR_ENABLE))]

\* A put_char whose loop tests a value it loaded once, as a build that does
\* not treat the status register as volatile may: once it has seen
\* transmit-full set (kept in c.tmp) it never loads the register again.
putc_uartlite_cached(c, d) ==
    CASE c.pc = "putc_44" /\ c.tmp.lo = 1 ->
            [cpu |-> c, acc |-> NoAcc]
      [] c.pc = "putc_44" /\ c.tmp.lo # 1 ->
            [cpu |-> [c EXCEPT !.tmp = W(0, tx_full(d.status)),
                               !.pc = IF tx_full(d.status) = 1
                                      THEN "putc_44" ELSE "putc_45"],
             acc |-> Rd("status", d.status)]
      [] c.pc = "putc_45" ->
            [cpu |-> Return(c),
             acc |-> Wr("tx_fifo", ToU32(c.c))]

\* A put_char that also waits while the overrun flag is set.
putc_uartlite_overrun(c, d) ==
    CASE c.pc = "putc_44" ->
            [cpu |-> [c EXCEPT !.pc = IF tx_full(d.status) = 1
                                         \/ WBit(d.status, OVERRUN) = 1
                                      THEN "putc_44" ELSE "putc_45"],
             acc |-> Rd("status", d.status)]
      [] c.pc = "putc_45" ->
            [cpu |-> Return(c),
             acc |-> Wr("tx_fifo", ToU32(c.c))]

\* A put_char that does not wait: uart->tx_fifo = c;
putc_uartlite_nowait(c, d) ==
    CASE c.pc = "putc_44" ->
            [cpu |-> [c EXCEPT !.pc = "putc_45"], acc |-> NoAcc]
      [] c.pc = "putc_45" ->
            [cpu |-> Return(c),
             acc |-> Wr("tx_fifo", ToU32(c.c))]

\* A put_char whose loop tests the wrong member of the register block:
\* while (uart->rx_fifo & 8); uart->tx_fifo = c;
putc_uartlite_wrongreg(c, d) ==
    CASE c.pc = "putc_44" ->
            [cpu |-> [c EXCEPT !.pc = IF WBit(d.rx_fifo, TX_FULL) = 1
                                      THEN "putc_44" ELSE "putc_45"],
             acc |-> Rd("rx_fifo", d.rx_fifo)]
      [] c.pc = "putc_45" ->
            [cpu |-> Return(c),
             acc |-> Wr("tx_fifo", ToU32(c.c))]

\* A put_char that polls once and then stores whatever it saw:
\* if (uart->tx_full); uart->tx_fifo = c;
putc_uartlite_once(c, d) ==
    CASE c.pc = "putc_44" ->
            [cpu |-> [c EXCEPT !.pc = "putc_45"],
             acc |-> Rd("status", d.status)]
      [] c.pc = "putc_45" ->
            [cpu |-> Return(c),
             acc |-> Wr("tx_fifo", ToU32(c.c))]

\* A put_char that waits while transmit-full is clear.
putc_uartlite_inverted(c, d) ==
    CASE c.pc = "putc_44" ->
            [cpu |-> [c EXCEPT !.pc = IF tx_full(d.status) = 0
                                      THEN "putc_44" ELSE "putc_45"],
             acc |-> Rd("status", d.status)]
      [] c.pc = "putc_45" ->
            [cpu |-> Return(c),
             acc |-> Wr("tx_fifo", ToU32(c.c))]

\* void putc_uartlite(uart, c): while (uart->tx_full); uart->tx_fifo = c;
putc_uartlite(c, d) ==
    CASE c.pc = "putc_44" ->
            [cpu |-> [c EXCEPT !.pc = IF tx_full(d.status) = 1
                                      THEN "putc_44" ELSE "putc_45"],
             acc |-> Rd("status", d.status)]
      [] c.pc = "putc_45" ->
            [cpu |-> Return(c),
             acc |-> Wr("tx_fifo", ToU32(c.c))]

\* A get_char that waits while receive-valid is set.
getc_uartlite_inverted(c, d) ==
    CASE c.pc = "getc_49" ->
            [cpu |-> [c EXCEPT !.pc = IF rx_valid(d.status) = 1
                                      THEN "getc_49" ELSE "getc_50"],
             acc |-> Rd("status", d.status)]
      [] c.pc = "getc_50" ->
            [cpu |-> Return([c EXCEPT !.ret = ToChar(d.rx_fifo, c.signed)]),
             acc |-> Rd("rx_fifo", d.rx_fifo)]

\* char getc_uartlite(uart): while (!uart->rx_valid); return (char)uart->rx_fifo;
getc_uartlite(c, d) ==
    CASE c.pc = "getc_49" ->
            [cpu |-> [c EXCEPT !.pc = IF rx_valid(d.status) = 0
                                      THEN "getc_49" ELSE "getc_50"],
             acc |-> Rd("status", d.status)]
      [] c.pc = "getc_50" ->
            [cpu |-> Return([c EXCEPT !.ret = ToChar(d.rx_fifo, c.signed)]),
             acc |-> Rd("rx_fifo", d.rx_fifo)]

\* A put_string whose loop tests after the body: do putc(*pc); while (*pc++);
puts_uartlite_dowhile(c, d) ==
    CASE c.pc = "puts_54" ->
            [cpu |-> Call([c EXCEPT !.c = ToChar(W(0, c.str[c.i + 1]),
                                                 c.signed)],
                          "putc_44", "puts_54_inc"),
             acc |-> NoAcc]
      [] c.pc = "puts_54_inc" ->
            [cpu |-> IF c.str[c.i + 1] = 0
                     THEN Return(c)
                     ELSE [c EXCEPT !.i = @ + 1, !.pc = "puts_54"],
             acc |-> NoAcc]

\* void puts_uartlite(uart, str): for (pc = str; *pc; pc++) putc_uartlite(uart, *pc);
\* c.str is the memory at str (bytes), c.i is pc - str.
puts_uartlite(c, d) ==
    CASE c.pc = "puts_54" ->
            [cpu |-> IF c.str[c.i + 1] = 0
                     THEN Return(c)
                     ELSE Call([c EXCEPT !.c = ToChar(W(0, c.str[c.i + 1]),
                                                     c.signed)],
                               "putc_44", "puts_54_inc"),
             acc |-> NoAcc]
      [] c.pc = "puts_54_inc" ->
            [cpu |-> [c EXCEPT !.i = @ + 1, !.pc = "puts_54"],
             acc |-> NoAcc]

\* A main that resets inside its loop:
\* while (1) { reset_uartlite(uartlite); puts_uartlite(uartlite, hello_world); }
main_reset_in_loop(c, d) ==
    CASE c.pc = "main_64" ->
            [cpu |-> Call(c, "reset_38_ld", "main_66"),
             acc |-> NoAcc]
      [] c.pc = "main_66" ->
            [cpu |-> Call([c EXCEPT !.str = hello_world, !.i = 0],
                          "puts_54", "main_64"),
             acc |-> NoAcc]

\* A main that prints the greeting once and returns.
main_once(c, d) ==
    CASE c.pc = "main_64" ->
            [cpu |-> Call(c, "reset_38_ld", "main_66"),
             acc |-> NoAcc]
      [] c.pc = "main_66" /\ c.str # hello_world ->
            [cpu |-> Call([c EXCEPT !.str = hello_world, !.i = 0],
                          "puts_54", "main_66"),
             acc |-> NoAcc]
      [] c.pc = "main_66" /\ c.str = hello_world ->
            [cpu |-> Return(c), acc |-> NoAcc]

\* int main(): reset_uartlite(uartlite); while (1) puts_uartlite(uartlite, hello_world);
main(c, d) ==
    CASE c.pc = "main_64" ->
            [cpu |-> Call(c, "reset_38_ld", "main_66"),
             acc |-> NoAcc]
      [] c.pc = "main_66" ->
            [cpu |-> Call([c EXCEPT !.str = hello_world, !.i = 0],
                          "puts_54", "main_66"),
             acc |-> NoAcc]

\* The step the CPU takes from where it is.
Step(c, d) ==
    CASE c.pc \in ResetPCs -> reset_uartlite(c, d)
      [] c.pc \in PutcPCs -> putc_uartlite(c, d)
      [] c.pc \in GetcPCs -> getc_uartlite(c, d)
      [] c.pc \in PutsPCs -> puts_uartlite(c, d)
      [] c.pc \in MainPCs -> main(c, d)

----------------------------------------------------------------------------
(* The device.  Its kind says how its status behaves: "free" changes every *)
(* status bit and the receive register at will; "neverfull" does the same  *)
(* with transmit-full always clear; "fifo" is a transmit FIFO of FifoDepth *)
(* bytes that the hardware drains, with transmit-full and transmit-empty   *)
(* following its occupancy.                                                *)

\* The status bits the driver never looks at, and the patterns of them the
\* device produces: none, all, and single bits.
AuxBits == <<OVERRUN, FRAME, PARITY, RX_FULL, TX_EMPTY, INTR_ENABLED>>
AuxAll == Pow2(OVERRUN) + Pow2(FRAME) + Pow2(PARITY) + Pow2(RX_FULL)
          + Pow2(TX_EMPTY) + Pow2(INTR_ENABLED)
AuxVals ==
    {0, AuxAll} \cup {Pow2(AuxBits[i]) : i \in 1 .. (MaxAux - 1)}
Aux(status) == status.lo - tx_full(status) * Pow2(TX_FULL)
                         - rx_valid(status) * Pow2(RX_VALID)

StatusVals ==
    {W(0, a + f * Pow2(TX_FULL) + v * Pow2(RX_VALID)) :
        a \in AuxVals, f \in {0, 1}, v \in {0, 1}}
\* Transmit-full and transmit-empty as the FIFO's occupancy gives them.
FifoStatus(status, fifo) ==
    LET a == IF Len(fifo) = FifoDepth
             THEN SetBit(status, TX_FULL) ELSE ClrBit(status, TX_FULL)
    IN IF fifo = <<>> THEN SetBit(a, TX_EMPTY) ELSE ClrBit(a, TX_EMPTY)

\* The status values a device of each kind may start with.
StatusFor(kind) ==
    CASE kind = "neverfull" -> {s \in StatusVals : tx_full(s) = 0}
      [] kind = "fifo" -> {FifoStatus(s, <<>>) : s \in StatusVals}
      [] OTHER -> StatusVals

\* Receive register values: a byte under clear upper bits, and a byte with
\* its top bit set under upper bits all set.
RxVals == {W(0, 65), W(Hi24, 200)}
\* Values the control register may hold before the program starts.
CtrlVals == {W(0, 0), W(0, 16), W(Hi24, 236), W(Hi24, 255)}

\* The device after a bus access: a store to control is kept; a store to the
\* transmit register enters the FIFO, or is lost when the FIFO is full.
DevAccess(d, acc) ==
    CASE acc.kind = "wr" /\ acc.reg = "control" ->
            [d EXCEPT !.control = acc.val]
      [] acc.kind = "wr" /\ acc.reg = "tx_fifo" /\ d.kind = "fifo"
                         /\ Len(d.fifo) < FifoDepth ->
            [d EXCEPT !.fifo = Append(@, acc.val.lo),
                      !.status = FifoStatus(@, Append(d.fifo, acc.val.lo))]
      [] OTHER -> d

----------------------------------------------------------------------------
(* The observer: the traces of the bus accesses made so far.               *)

\* The greeting repeats with this period.
Period == Len(hello_world) - 1

\* A stream keeps its first MaxLog values and its last one, and counts all
\* of them modulo the greeting's period.
EmptyStream == [log |-> <<>>, n |-> 0, last |-> W(0, 0)]
Keep(log, v) == IF Len(log) < MaxLog THEN Append(log, v) ELSE log
Push(st, v) ==
    [log |-> Keep(st.log, v), n |-> (st.n + 1) % Period, last |-> v]

\* What the observer keeps of the last bus access: its kind, its register
\* and, of a status read, the two bits the driver waits on.
Seen(acc) ==
    [kind |-> acc.kind, reg |-> acc.reg,
     bits |-> IF acc.reg = "status"
              THEN <<tx_full(acc.val), rx_valid(acc.val)>> ELSE <<>>]

Observe(o, acc, d) ==
    LET o1 == [o EXCEPT !.last = IF acc.kind = "none" THEN @ ELSE Seen(acc)]
    IN CASE acc.kind = "wr" /\ acc.reg = "tx_fifo" ->
                [o1 EXCEPT !.tx = Push(@, acc.val),
                           !.dropped = @ \/ (d.kind = "fifo"
                                             /\ Len(d.fifo) = FifoDepth)]
         [] acc.kind = "wr" /\ acc.reg = "control" ->
                [o1 EXCEPT !.ctrl = Keep(@, acc.val)]
         [] acc.kind = "rd" /\ acc.reg = "rx_fifo" ->
                [o1 EXCEPT !.rx = Keep(@, acc.val)]
         [] acc.kind = "rd" /\ acc.reg = "status" ->
                [o1 EXCEPT !.polls = IF @ < MaxPolls THEN @ + 1 ELSE @]
         [] OTHER -> o1

\* What the observer notes when the device changes its status by itself.
Notice(o, status) ==
    [o EXCEPT !.txClear = @ \/ tx_full(status) = 0,
              !.rxSeen = @ \/ rx_valid(status) = 1]

----------------------------------------------------------------------------
(* The runs: the routine a run starts in, with its arguments.               *)

\* Bytes a character argument is made of: 'A', 'B' and a byte with its top
\* bit set (a negative char where char is signed).
Alphabet == {65, 66, 200}
\* The memory a char const *str points at: up to MaxStrLen bytes 'A', 'B' or
\* zero (a zero inside ends the C string early), or the one byte with its
\* top bit set; then the terminating zero.
Arrays ==
    UNION {[1 .. n -> {0, 65, 66}] : n \in 0 .. MaxStrLen} \cup {<<200>>}
Strs == {a \o <<0>> : a \in Arrays}

Entry(name, byte, str) == [name |-> name, byte |-> byte, str |-> str]
Entries ==
    {Entry("main", 0, <<0>>), Entry("reset", 0, <<0>>), Entry("getc", 0, <<0>>)}
    \cup {Entry("putc", b, <<0>>) : b \in Alphabet \cup {0}}
    \cup {Entry("puts", 0, s) : s \in Strs}

FirstPC(name) ==
    CASE name = "main" -> "main_64"
      [] name = "reset" -> "reset_38_ld"
      [] name = "putc" -> "putc_44"
      [] name = "getc" -> "getc_49"
      [] name = "puts" -> "puts_54"

StartCpu(e, signed) ==
    [entry |-> e.name, pc |-> FirstPC(e.name), stack |-> <<>>,
     signed |-> signed, c |-> ToChar(W(0, e.byte), signed),
     str |-> e.str, i |-> 0, ret |-> 0, tmp |-> W(0, 0)]

StartDev(kind, status, rx, control) ==
    [kind |-> kind, ctrl_rd |-> "mirror", status |-> status, rx_fifo |-> rx,
     control |-> control, fifo |-> <<>>]

StartObs(d) ==
    [tx |-> EmptyStream, wire |-> EmptyStream, ctrl |-> <<>>, rx |-> <<>>,
     polls |-> 0, last |-> Seen(NoAcc), ctrl0 |-> d.control, dropped |-> FALSE,
     txClear |-> tx_full(d.status) = 0, rxSeen |-> rx_valid(d.status) = 1]

\* The control register's value at the start varies in the runs whose code
\* names the register.
CtrlFor(e) == IF e.name \in {"reset", "main"} THEN CtrlVals ELSE {W(0, 0)}

StartRun(es, kind) ==
    \E e \in es, signed \in BOOLEAN, s \in StatusFor(kind), r \in RxVals :
      \E k \in CtrlFor(e) :
        /\ cpu = StartCpu(e, signed)
        /\ dev = StartDev(kind, s, r, k)
        /\ obs = StartObs(dev)

\* A single run: there is no second one.
Start(es, kind) == StartRun(es, kind) /\ twin = [on |-> FALSE]

Init == Start(Entries, "free")

----------------------------------------------------------------------------
(* The actions: one per routine of the program, and the device's own.      *)

Exec(st) ==
    /\ cpu' = st.cpu
    /\ dev' = DevAccess(dev, st.acc)
    /\ obs' = Observe(obs, st.acc, dev)
    /\ UNCHANGED twin

ResetStep == cpu.pc \in ResetPCs /\ Exec(reset_uartlite(cpu, dev))
PutcStep == cpu.pc \in PutcPCs /\ Exec(putc_uartlite(cpu, dev))
GetcStep == cpu.pc \in GetcPCs /\ Exec(getc_uartlite(cpu, dev))
PutsStep == cpu.pc \in PutsPCs /\ Exec(puts_uartlite(cpu, dev))
MainStep == cpu.pc \in MainPCs /\ Exec(main(cpu, dev))

Cpu == ResetStep \/ PutcStep \/ GetcStep \/ PutsStep \/ MainStep

\* The device changes its status and its receive register.
DevChange ==
    /\ dev.kind \in {"free", "neverfull"}
    /\ \E s \in StatusFor(dev.kind), r \in RxVals :
        /\ <<s, r>> # <<dev.status, dev.rx_fifo>>
        /\ dev' = [dev EXCEPT !.status = s, !.rx_fifo = r]
        /\ obs' = Notice(obs, s)
    /\ UNCHANGED <<cpu, twin>>

Next == ResetStep \/ PutcStep \/ GetcStep \/ PutsStep \/ MainStep \/ DevChange

Spec == Init /\ [][Next]_vars

\* The two waiting routines alone, with a CPU that keeps executing.
WaitEntries == {e \in Entries : e.name \in {"putc", "getc"}}
InitWait == Start(WaitEntries, "free")
NextWait == PutcStep \/ GetcStep \/ DevChange
SpecWait == InitWait /\ [][NextWait]_vars /\ WF_vars(Cpu)

\* Two runs of the same routine side by side, against two devices that
\* agree at every step on transmit-full, receive-valid and the receive data
\* register, and differ at will in the other status bits.
Agree(s1, s2) == tx_full(s1) = tx_full(s2) /\ rx_valid(s1) = rx_valid(s2)
TwinEntries == {e \in Entries : e.name \in {"putc", "puts", "getc", "main"}}
InitTwin ==
    /\ StartRun(TwinEntries, "free")
    /\ \E s2 \in StatusVals :
        /\ Agree(dev.status, s2)
        /\ twin = [on |-> TRUE, cpu |-> cpu, obs |-> obs,
                   dev |-> [dev EXCEPT !.status = s2]]

\* Both CPUs take their next step, each against its own device; a run that
\* has returned stays where it is.
StepOrStay(c, d, o) ==
    IF c.pc = "done"
    THEN [cpu |-> c, dev |-> d, obs |-> o]
    ELSE [cpu |-> Step(c, d).cpu,
          dev |-> DevAccess(d, Step(c, d).acc),
          obs |-> Observe(o, Step(c, d).acc, d)]
TwinCpu ==
    /\ cpu.pc # "done" \/ twin.cpu.pc # "done"
    /\ LET a == StepOrStay(cpu, dev, obs)
           b == StepOrStay(twin.cpu, twin.dev, twin.obs)
       IN /\ cpu' = a.cpu
          /\ dev' = a.dev
          /\ obs' = a.obs
          /\ twin' = [on |-> TRUE, cpu |-> b.cpu, dev |-> b.dev, obs |-> b.obs]

\* A status with its two awaited bits, or its other bits, replaced.
WithKey(status, f, v) ==
    W(status.hi, Aux(status) + f * Pow2(TX_FULL) + v * Pow2(RX_VALID))
WithAux(status, a) == W(status.hi, status.lo - Aux(status) + a)

\* The devices change: both in the bits and the register they agree on, or
\* either one in its other status bits.
TwinDev ==
    \/ \E f \in {0, 1}, v \in {0, 1}, r \in RxVals :
        /\ <<f, v, r>> # <<tx_full(dev.status), rx_valid(dev.status), dev.rx_fifo>>
        /\ dev' = [dev EXCEPT !.status = WithKey(@, f, v), !.rx_fifo = r]
        /\ obs' = Notice(obs, dev'.status)
        /\ twin' = [twin EXCEPT !.dev.status = WithKey(@, f, v),
                                !.dev.rx_fifo = r,
                                !.obs = Notice(@, dev'.status)]
        /\ UNCHANGED cpu
    \/ \E a \in AuxVals \ {Aux(dev.status)} :
        /\ dev' = [dev EXCEPT !.status = WithAux(@, a)]
        /\ UNCHANGED <<cpu, obs, twin>>
    \/ \E a \in AuxVals \ {Aux(twin.dev.status)} :
        /\ twin' = [twin EXCEPT !.dev.status = WithAux(@, a)]
        /\ UNCHANGED <<cpu, dev, obs>>

NextTwin == TwinCpu \/ TwinDev
SpecTwin == InitTwin /\ [][NextTwin]_vars

MainEntries == {e \in Entries : e.name = "main"}

\* The hardware sends the byte at the head of the transmit FIFO.
Drain ==
    /\ dev.kind = "fifo"
    /\ dev.fifo # <<>>
    /\ dev' = [dev EXCEPT !.fifo = Tail(@),
                          !.status = FifoStatus(@, Tail(dev.fifo))]
    /\ obs' = [obs EXCEPT !.wire = Push(@, W(0, Head(dev.fifo)))]
    /\ UNCHANGED <<cpu, twin>>

\* main against a device that is a transmit FIFO the hardware drains while
\* the CPU runs.
InitFifo == Start(MainEntries, "fifo")
NextFifo == ResetStep \/ PutcStep \/ PutsStep \/ MainStep \/ Drain
SpecFifo == InitFifo /\ [][NextFifo]_vars
\* The same, with a CPU that keeps executing and hardware that keeps sending
\* while the FIFO holds a byte.
SpecFifoFair == SpecFifo /\ WF_vars(Cpu) /\ WF_vars(Drain)

\* reset_uartlite, alone and as main calls it, against a device whose
\* control register is write-only: a load of it gives zero, whatever was
\* stored.
ResetEntries == {e \in Entries : e.name \in {"reset", "main"}}
InitWriteOnly ==
    /\ \E e \in ResetEntries, signed \in BOOLEAN, s \in StatusVals,
          r \in RxVals, k \in CtrlVals :
        /\ cpu = StartCpu(e, signed)
        /\ dev = [StartDev("free", s, r, k) EXCEPT !.ctrl_rd = "zero"]
        /\ obs = StartObs(dev)
    /\ twin = [on |-> FALSE]
NextWriteOnly == ResetStep \/ PutcStep \/ PutsStep \/ MainStep \/ DevChange
SpecWriteOnly == InitWriteOnly /\ [][NextWriteOnly]_vars

\* main against a device whose transmit-full bit is always clear, with a
\* CPU that keeps executing.
InitNeverFull == Start(MainEntries, "neverfull")
NextMain == ResetStep \/ PutcStep \/ PutsStep \/ MainStep \/ DevChange
SpecNeverFull == InitNeverFull /\ [][NextMain]_vars /\ WF_vars(Cpu)

----------------------------------------------------------------------------
(* Steps of a behaviour, as the observer tells them apart.                  *)

\* This step stores to the transmit data register.
TxWrite == obs'.tx.n # obs.tx.n
\* This step loads the receive data register.
RxRead == Len(obs'.rx) > Len(obs.rx)
\* The last bus access was a status read that saw transmit-full clear.
PolledNotFull ==
    obs.last.kind = "rd" /\ obs.last.reg = "status" /\ obs.last.bits[1] = 0
\* The last bus access was a status read that saw receive-valid set.
PolledValid ==
    obs.last.kind = "rd" /\ obs.last.reg = "status" /\ obs.last.bits[2] = 1

\* The length of the C string in the memory a: the bytes before its first zero.
CStrLen(a) ==
    CHOOSE n \in 0 .. (Len(a) - 1) :
        a[n + 1] = 0 /\ \A j \in 1 .. n : a[j] # 0

----------------------------------------------------------------------------
\* The k-th value (k >= 1) of the greeting repeated for ever, as a register
\* word: hello_world without its terminator, over and over.
Greeting(k) == W(0, hello_world[((k - 1) % Period) + 1])

\* The transmit trace so far is the greeting repeated, and main has not returned.
C1_TraceState ==
    /\ \A k \in 1 .. Len(obs.tx.log) : obs.tx.log[k] = Greeting(k)
    /\ obs.tx.log # <<>> => obs.tx.last = Greeting(obs.tx.n + Period)
    /\ Len(obs.tx.log) < MaxLog => obs.tx.n = Len(obs.tx.log) % Period
    /\ cpu.pc # "done"

(* C1.  Against a device whose transmit-full bit is always clear, the      *)
(* values main stores to the transmit data register are the 15 bytes       *)
(* "Hello, World!" CR LF over and over: every value stored is the next one *)
(* of that repetition (no terminator, no gap, no reordering), every place  *)
(* of the greeting is stored again and again, and main never returns.      *)
C1_HelloForever ==
    /\ []C1_TraceState
    /\ \A k \in 0 .. (Period - 1) : []<>(obs.tx.n = k)
    /\ []<><<TxWrite>>_vars
C1_Witness ==
    /\ cpu.entry = "main" /\ Len(obs.tx.log) > Period
    /\ obs.tx.n = 2 /\ obs.tx.last = W(0, 101)
    /\ Aux(dev.status) = AuxAll

\* What a call of put_char has stored, before and after its return.
C2_PutCharState ==
    cpu.entry = "putc" =>
        IF cpu.pc = "done"
        THEN /\ Len(obs.tx.log) = 1
             /\ obs.tx.log[1].lo = cpu.c % Byte
             /\ obs.last = Seen(Wr("tx_fifo", obs.tx.log[1]))
        ELSE obs.tx.log = <<>>

(* C2.  put_char never stores to the transmit data register unless the     *)
(* status poll just before saw transmit-full clear; a call of put_char     *)
(* has stored nothing until it returns, and when it has returned it has    *)
(* stored exactly one value, whose low 8 bits are c.                       *)
C2_PutChar ==
    /\ []C2_PutCharState
    /\ [][TxWrite => PolledNotFull]_vars
C2_Witness ==
    /\ cpu.entry = "putc" /\ cpu.pc = "done"
    /\ obs.polls >= 2 /\ cpu.c < 0

(* C3.  put_string on the C string s of length n stores exactly the n      *)
(* bytes of s, in order, and nothing else: at every moment the stores made *)
(* are a prefix of s, at the return they are all of s, the terminating     *)
(* zero is never stored, put_string("AB") stores 'A' then 'B', and the     *)
(* empty string gives no store and no status poll.                         *)
C3_PutString ==
    cpu.entry = "puts" =>
        LET n == CStrLen(cpu.str)
            log == obs.tx.log
        IN /\ Len(log) <= n
           /\ \A k \in 1 .. Len(log) : log[k].lo = cpu.str[k]
           /\ \A k \in 1 .. Len(log) : log[k].lo # 0
           /\ cpu.pc = "done" => Len(log) = n
           /\ cpu.pc = "done" /\ cpu.str = <<65, 66, 0>>
                => log = <<W(0, 65), W(0, 66)>>
           /\ n = 0 => obs.polls = 0 /\ log = <<>>
C3_Witness ==
    /\ cpu.entry = "puts" /\ cpu.pc = "done"
    /\ cpu.str = <<65, 66, 0>> /\ Len(obs.tx.log) = 2 /\ obs.polls >= 2

\* What a call of get_char has loaded and returned, before and after its return.
C4_GetCharState ==
    cpu.entry = "getc" =>
        IF cpu.pc = "done"
        THEN /\ Len(obs.rx) = 1
             /\ cpu.ret % Byte = obs.rx[1].lo
             /\ cpu.ret \in -128 .. 255
        ELSE obs.rx = <<>>

(* C4.  get_char loads the receive data register only right after a status *)
(* poll that saw receive-valid set, loads it exactly once per call and not *)
(* before, and returns the low 8 bits of the value the register held at    *)
(* that load, whatever its upper 24 bits.                                  *)
C4_GetChar ==
    /\ []C4_GetCharState
    /\ [][RxRead => /\ PolledValid
                    /\ obs'.rx = Append(obs.rx, dev.rx_fifo)
                    /\ cpu'.ret % Byte = dev.rx_fifo.lo]_vars
C4_Witness ==
    /\ cpu.entry = "getc" /\ cpu.pc = "done"
    /\ obs.polls >= 2 /\ obs.rx[1].hi = Hi24 /\ cpu.ret < 0

(* C5.  When reset has returned, the control register mirror has           *)
(* transmit-reset and receive-reset set and interrupt-enable clear, and    *)
(* every other bit as it was before the call.                              *)
C5_Reset ==
    cpu.entry = "reset" /\ cpu.pc = "done" =>
        /\ WBit(dev.control, TX_RESET) = 1
        /\ WBit(dev.control, RX_RESET) = 1
        /\ WBit(dev.control, INTR_ENABLE) = 0
        /\ dev.control.hi = obs.ctrl0.hi
        /\ \A k \in (0 .. 7) \ {TX_RESET, RX_RESET, INTR_ENABLE} :
              WBit(dev.control, k) = WBit(obs.ctrl0, k)
C5_Witness ==
    /\ cpu.entry = "reset" /\ cpu.pc = "done"
    /\ obs.ctrl0 = W(Hi24, 236) /\ dev.control # obs.ctrl0

\* The control stores main has made, against the transfers it has started.
TransferStarted == obs.polls > 0 \/ obs.tx.log # <<>>
C6_ResetOnceState ==
    cpu.entry = "main" =>
        /\ Len(obs.ctrl) <= 3
        /\ TransferStarted =>
              /\ Len(obs.ctrl) = 3
              /\ WBit(obs.ctrl[1], TX_RESET) = 1
              /\ WBit(obs.ctrl[2], RX_RESET) = 1
              /\ WBit(obs.ctrl[3], INTR_ENABLE) = 0
              /\ dev.control = obs.ctrl[3]

(* C6.  main resets the device exactly once and before any transfer: the   *)
(* control register is stored to three times in all (reset's three         *)
(* bit-field stores, from the value the register started with), all three  *)
(* before the first status poll and the first transmit store, and never    *)
(* again after the first transmit store.                                   *)
C6_ResetOnce ==
    /\ []C6_ResetOnceState
    /\ [][cpu.entry = "main" /\ TransferStarted => obs'.ctrl = obs.ctrl]_vars
C6_Witness ==
    /\ cpu.entry = "main" /\ Len(obs.tx.log) > Period
    /\ Len(obs.ctrl) = 3 /\ obs.ctrl0 = W(Hi24, 255)

(* C7.  The waits have no timeout: as long as transmit-full has been       *)
(* asserted ever since put_char was called, put_char has stored nothing,   *)
(* has not returned and is still polling; as long as receive-valid has     *)
(* been clear ever since get_char was called, get_char has loaded nothing  *)
(* from the receive data register, has not returned and is still polling.  *)
C7_NoTimeout ==
    /\ cpu.entry = "putc" /\ ~obs.txClear =>
          /\ cpu.pc = "putc_44" /\ ENABLED PutcStep
          /\ obs.tx.log = <<>>
    /\ cpu.entry = "getc" /\ ~obs.rxSeen =>
          /\ cpu.pc = "getc_49" /\ ENABLED GetcStep
          /\ obs.rx = <<>>
C7_Witness ==
    /\ cpu.entry = "putc" /\ ~obs.txClear
    /\ obs.polls >= 2 /\ obs.last.bits = <<1, 1>>

(* C8.  Each poll loads the live status register: with a CPU that keeps    *)
(* executing, if the device from some moment on keeps transmit-full clear, *)
(* put_char stores its one value and returns; if the device from some      *)
(* moment on keeps receive-valid set, get_char loads its one value and     *)
(* returns.                                                                *)
C8_LivePoll ==
    /\ (cpu.entry = "putc" /\ <>[](tx_full(dev.status) = 0))
          => <>(cpu.pc = "done" /\ Len(obs.tx.log) = 1)
    /\ (cpu.entry = "getc" /\ <>[](rx_valid(dev.status) = 1))
          => <>(cpu.pc = "done" /\ Len(obs.rx) = 1)
C8_Witness ==
    /\ cpu.entry = "putc" /\ cpu.pc = "done" /\ obs.polls >= 2
    /\ obs.last.reg = "tx_fifo" /\ tx_full(dev.status) = 0 /\ cpu.c = 65

(* C9.  The other status flags are never acted upon: two runs of put_char, *)
(* put_string, get_char or main against devices that agree at every step   *)
(* on transmit-full, receive-valid and the receive data register, and      *)
(* differ at will in receive-full, transmit-empty, interrupt-enabled,      *)
(* overrun, framing error and parity error, have made the same register    *)
(* stores and loads at every step, are at the same place, and return the   *)
(* same value.                                                             *)
C9_AuxIgnored ==
    twin.on =>
        /\ obs.tx = twin.obs.tx
        /\ obs.ctrl = twin.obs.ctrl
        /\ obs.rx = twin.obs.rx
        /\ obs.last = twin.obs.last
        /\ obs.polls = twin.obs.polls
        /\ cpu.pc = twin.cpu.pc
        /\ cpu.ret = twin.cpu.ret
C9_Witness ==
    /\ twin.on /\ cpu.entry = "puts" /\ cpu.pc = "done"
    /\ Len(obs.tx.log) = 2 /\ obs.polls >= 2
    /\ WBit(dev.status, OVERRUN) = 1 /\ WBit(twin.dev.status, OVERRUN) = 0

\* The FIFO, the bytes sent and the bytes stored, against the greeting.
C10_NoOverflowState ==
    dev.kind = "fifo" =>
        /\ ~obs.dropped
        /\ tx_full(dev.status) = 1 <=> Len(dev.fifo) = FifoDepth
        /\ \A k \in 1 .. Len(obs.wire.log) : obs.wire.log[k] = Greeting(k)
        /\ obs.wire.log # <<>> => obs.wire.last = Greeting(obs.wire.n + Period)
        /\ \A j \in 1 .. Len(dev.fifo) :
              dev.fifo[j] = Greeting(obs.wire.n + j).lo
        /\ obs.tx.n = (obs.wire.n + Len(dev.fifo)) % Period
        /\ Len(obs.tx.log) < MaxLog =>
              obs.tx.log = obs.wire.log \o [j \in 1 .. Len(dev.fifo) |->
                                               W(0, dev.fifo[j])]

(* C10.  With the device a transmit FIFO of FifoDepth bytes that the       *)
(* hardware drains while the CPU runs, full exactly when transmit-full is  *)
(* set, main never stores to the transmit data register while the FIFO is  *)
(* full, so no byte is lost: the bytes that have left the FIFO, followed   *)
(* by the bytes in it, are the bytes main has stored, and they are the     *)
(* greeting repeated, in order, without loss or duplication.               *)
C10_NoOverflow ==
    /\ []C10_NoOverflowState
    /\ [][TxWrite => Len(dev.fifo) < FifoDepth
                     /\ dev'.fifo = Append(dev.fifo, obs'.tx.last.lo)]_vars
C10_Witness ==
    /\ dev.kind = "fifo" /\ Len(obs.wire.log) > Period
    /\ Len(dev.fifo) = FifoDepth /\ cpu.pc = "putc_44"
    /\ obs.last.reg = "status" /\ obs.last.bits[1] = 1

\* main is not stuck: while the FIFO has room, the CPU's next step changes
\* the state (a poll that sees the FIFO full may change nothing).
C11_NotStuck ==
    /\ cpu.pc # "done"
    /\ ENABLED Cpu
    /\ Len(dev.fifo) < FifoDepth => ENABLED <<Cpu>>_vars

(* C11.  Progress under backpressure: with the device a transmit FIFO that *)
(* fair hardware drains whenever it holds a byte, and a CPU that keeps     *)
(* executing, every put_char call main makes returns, every                *)
(* put_string(hello_world) call returns, every byte of the greeting is     *)
(* stored and sent again and again, and main is never stuck while the FIFO *)
(* has room.                                                               *)
C11_Progress ==
    /\ []C11_NotStuck
    /\ (cpu.pc \in PutcPCs) ~> (cpu.pc = "puts_54_inc")
    /\ (cpu.pc = "puts_54" /\ cpu.i = 0) ~> (cpu.pc = "main_66")
    /\ \A k \in 0 .. (Period - 1) :
          /\ []<>(obs.tx.n = k)
          /\ []<>(obs.wire.n = k)
C11_Witness ==
    /\ dev.kind = "fifo" /\ cpu.pc = "putc_44"
    /\ obs.last.reg = "status" /\ obs.last.bits[1] = 1
    /\ Len(dev.fifo) < FifoDepth /\ Len(obs.wire.log) > Period

\* reset_uartlite has returned: the run that started in it is done, the run
\* that started in main is past its call.
ResetReturned ==
    \/ cpu.entry = "reset" /\ cpu.pc = "done"
    \/ cpu.entry = "main" /\ cpu.pc \notin ResetPCs \cup {"main_64"}

(* C12.  Against a control register that is write-only (a load of it gives *)
(* zero), reset still stores to it three times, in this order: a value     *)
(* with transmit-reset set, a value with receive-reset set, a value with   *)
(* interrupt-enable clear; so both resets are requested and the last value *)
(* stored leaves interrupts disabled.  The three values are 1, 2 and 0,    *)
(* whatever the register held before.                                      *)
C12_WriteOnlyReset ==
    dev.ctrl_rd = "zero" =>
        /\ Len(obs.ctrl) <= 3
        /\ Len(obs.ctrl) >= 1 => WBit(obs.ctrl[1], TX_RESET) = 1
        /\ Len(obs.ctrl) >= 2 => WBit(obs.ctrl[2], RX_RESET) = 1
        /\ Len(obs.ctrl) >= 3 => WBit(obs.ctrl[3], INTR_ENABLE) = 0
        /\ \A k \in 1 .. Len(obs.ctrl) :
              obs.ctrl[k] = <<W(0, 1), W(0, 2), W(0, 0)>>[k]
        /\ ResetReturned =>
              /\ Len(obs.ctrl) = 3
              /\ dev.control = obs.ctrl[3]
              /\ WBit(dev.control, INTR_ENABLE) = 0
C12_Witness ==
    /\ dev.ctrl_rd = "zero" /\ cpu.entry = "reset" /\ cpu.pc = "done"
    /\ obs.ctrl0 = W(Hi24, 255) /\ dev.control = W(0, 0)

\* The bus accesses a run may make, as <<kind, register>>; the last access
\* is one of them at every moment, so every access made is one of them.
LastAccess == <<obs.last.kind, obs.last.reg>>
NoAccess == <<"none", "none">>

(* C13.  Register access frame: put_char and put_string store only to the  *)
(* transmit data register and load only the status register (no control    *)
(* store, no load of the receive data register, so no received byte is     *)
(* consumed); get_char stores to no register; reset touches only the       *)
(* control register and makes no transmit store; main never loads the      *)
(* receive data register.                                                  *)
C13_AccessFrame ==
    /\ cpu.entry \in {"putc", "puts"} =>
          /\ LastAccess \in {NoAccess, <<"rd", "status">>, <<"wr", "tx_fifo">>}
          /\ obs.ctrl = <<>> /\ dev.control = obs.ctrl0
          /\ obs.rx = <<>>
    /\ cpu.entry = "getc" =>
          /\ LastAccess \in {NoAccess, <<"rd", "status">>, <<"rd", "rx_fifo">>}
          /\ obs.tx.log = <<>> /\ obs.ctrl = <<>> /\ dev.control = obs.ctrl0
    /\ cpu.entry = "reset" =>
          /\ LastAccess \in {NoAccess, <<"rd", "control">>, <<"wr", "control">>}
          /\ obs.tx.log = <<>> /\ obs.rx = <<>> /\ obs.polls = 0
    /\ cpu.entry = "main" =>
          /\ LastAccess # <<"rd", "rx_fifo">>
          /\ obs.rx = <<>>
C13_Witness ==
    /\ cpu.entry = "puts" /\ cpu.pc = "done" /\ Len(obs.tx.log) = 2
    /\ rx_valid(dev.status) = 1 /\ dev.rx_fifo = W(Hi24, 200)
    /\ LastAccess = <<"wr", "tx_fifo">>

====
